---- MODULE Spec2Model ----
(***************************************************************************)
(* Model of github_scraping.py: the paginated code search                  *)
(* (make_request, get_query_results), the interactive triage loop          *)
(* (enter_query_loop, preview_file_content, get_yes_no_response), the      *)
(* accept-time side effects (raise_issue, download_repository,             *)
(* add_to_records) and the top-level loop of main.                         *)
(*                                                                         *)
(* The program is single-threaded; pc is its position.  One action is one  *)
(* stretch of code between two interactions with the outside world (an     *)
(* HTTP request, a read from the terminal, the extraction of an archive).  *)
(* An uncaught exception ends the run: pc = "crashed".                     *)
(***************************************************************************)
EXTENDS Integers, Sequences, FiniteSets, TLC

\* ------------------------------------------------------------------------
\* Program constants (github_scraping.py:21-23, 179)
CONFIRM_PREVIEW_THRESHOLD == 100
INITIAL_PREVIEW_SIZE == 10
ITEMS_PER_PAGE == 30
SEPARATOR_WIDTH == 50

\* ------------------------------------------------------------------------
\* Bounds of the exploration
\* queries the operator types in one run
MaxQueries == 2
\* contents previews the operator sits through in one run
MaxPreviews == 2

\* ------------------------------------------------------------------------
\* The remote side.  A listing is what the search endpoint holds for one
\* query: the number of items it serves on page 1, 2, ... (a page past the
\* end of the listing is served empty), and which repository and path each
\* item belongs to: with stride 0 every item is a file of the first
\* repository, with stride 1 the items go round the repositories.
OwnerRepos == << <<"a", "r">>, <<"a", "s">>, <<"b", "r">> >>
Paths == << "f.py", "g.py" >>

PageSizes ==
    { <<0>>, <<2>>, <<2, 30>>, <<30>>, <<30, 5>>,
      <<30, 30, 30, 9>>, <<30, 30, 30, 10>> }

Listings == [sizes : PageSizes, stride : {0, 1}]

\* number of items page p of the listing serves
PageSize(l, p) == IF p \in 1..Len(l.sizes) THEN l.sizes[p] ELSE 0

RECURSIVE ItemsBefore(_, _)
\* number of items on the pages before page p
ItemsBefore(l, p) == IF p <= 1 THEN 0 ELSE ItemsBefore(l, p - 1) + PageSize(l, p - 1)

\* the g-th item of the listing, in the shape the search API returns it
RemoteItem(l, g) ==
    LET key  == OwnerRepos[(((g - 1) * l.stride) % Len(OwnerRepos)) + 1]
        \* the items of one repository are files of different paths
        nth  == IF l.stride = 0 THEN g ELSE ((g - 1) \div Len(OwnerRepos)) + 1
        path == Paths[((nth - 1) % Len(Paths)) + 1]
        repo_url == "https://github.com/" \o key[1] \o "/" \o key[2]
    IN  [ repository |-> [ html_url |-> repo_url,
                           owner    |-> [login |-> key[1]],
                           name     |-> key[2] ],
          html_url   |-> repo_url \o "/blob/" \o path,
          path       |-> path ]

\* json['items'] of page p
RemotePage(l, p) ==
    [j \in 1..PageSize(l, p) |-> RemoteItem(l, ItemsBefore(l, p) + j)]

\* ------------------------------------------------------------------------
\* What the operator may type, and str.lower() on it
Inputs == {"y", "YES", "n", "No", ""}

Lower(s) ==
    CASE s = "YES" -> "yes"
      [] s = "No"  -> "no"
      [] OTHER     -> s

\* variant: the response is compared as typed
IsYes_CaseSensitive(s) == s \in {"y", "yes"}

IsYes(s) == Lower(s) \in {"y", "yes"}
IsNo(s) == Lower(s) \in {"n", "no"}

\* number of lines of a previewed file
FileLengths == {0, 10, 12}

\* ------------------------------------------------------------------------
VARIABLES
    config,       \* read_config: raise_issue, scroll_enabled, extra_directory
    pc,           \* position of the program
    error,        \* the uncaught exception that ended the run and where it was raised
    queries,      \* number of queries read by main
    listing,      \* what the search endpoint holds for the current query
    results,      \* get_query_results: results
    curr_page,    \* get_query_results: curr_page
    requests,     \* history: the pages requested for the current query, in order
    i,            \* enter_query_loop: number of results already passed
    q_yes_set,    \* enter_query_loop: yes_set
    yes_set,      \* main: yes_set
    num_lines,    \* preview_file_content: lines of the file being previewed
    index,        \* preview_file_content: index of the line awaiting a response
    user_response,\* preview_file_content: user_response
    shown,        \* history: lines of the file printed during the current preview
    asked,        \* history: responses read at line 130 during the current preview
    records,      \* text of the record file, as the pieces written to it
    tmp_archive,  \* whether output.zip exists
    output_dirs,  \* directories extracted under output_root
    extra_dirs,   \* directories made under extra_directory
    trace         \* history: the interactions of the run, in order

vars == << config, pc, error, queries, listing, results, curr_page, requests, i, q_yes_set,
           yes_set, num_lines, index, user_response, shown, asked, records,
           tmp_archive, output_dirs, extra_dirs, trace >>

NoKey == <<"", "">>

\* user_response outside the loop of lines 125-134, where it is unbound
NoResponse == "<unbound>"

\* one interaction with the outside world
Event(ev, n, key, val) == [ev |-> ev, q |-> queries, n |-> n, key |-> key, val |-> val]

Log(e) == trace' = Append(trace, e)

\* ------------------------------------------------------------------------
\* get_query_results (lines 95-111)

\* lines 102-108: the result record made from one item
MapItem(item) ==
    [ repo_url   |-> item.repository.html_url,
      search_url |-> item.html_url,
      owner      |-> item.repository.owner.login,
      repo       |-> item.repository.name,
      path       |-> item.path ]

\* a full page taken for the last one
IsLastPage_Inclusive(n) == n <= ITEMS_PER_PAGE

\* line 109: done = len(curr_items) < ITEMS_PER_PAGE
IsLastPage(n) == n < ITEMS_PER_PAGE

\* the page number never advanced
NextPage_Stuck(p) == p

\* line 110: curr_page += 1
NextPage(p) == p + 1

\* lines 101-108: results after the items of one page are appended
AppendItems(rs, items) == rs \o [j \in 1..Len(items) |-> MapItem(items[j])]

\* ------------------------------------------------------------------------
\* The record file (add_to_records, lines 170-179).  The text of the file is
\* the sequence of the pieces written to it, to be read joined end to end;
\* "\n" is a piece of its own, so that the lines of the file can be told
\* apart.
NL == "\n"

\* dt.strftime('%Y/%m/%d %H:%M:%S') of the run's start time
Timestamp == "2022/03/01 12:00:00"

\* the value None of a failure message
None == << >>

RECURSIVE Repeat(_, _)
\* s * n
Repeat(s, n) == IF n <= 0 THEN "" ELSE s \o Repeat(s, n - 1)

\* line 162: the message made of an extraction failure e
FailMsg(result, e) ==
    << "Something went wrong extracting the repository, check it manually - "
         \o result.repo_url \o " (it may be too big).",
       NL,
       e >>

\* lines 172-179: what add_to_records writes
RecordEntry(result, fail_msg) ==
    << "Owner: " \o result.owner, NL >>
    \o << "Repository: " \o result.repo_url, NL >>
    \o << "Search Result: " \o result.search_url, NL >>
    \o (IF fail_msg = None
        THEN << "Downloaded: " \o Timestamp \o " US EST", NL >>
        ELSE << "Download failed! Message: " >> \o fail_msg)
    \o << Repeat("=", SEPARATOR_WIDTH), NL, NL >>

\* ------------------------------------------------------------------------
\* download_repository (lines 148-167)

ExtractOutcomes == {"ok", "FileNotFoundError", "BadZipFile"}

\* the removal done after a successful extraction only, not in a finally clause
TmpAfterExtract_OnSuccessOnly(outcome) == outcome # "ok"

\* lines 161, 165-166: whether output.zip exists once the try statement is
\* left: the finally clause removes it on every way out
TmpAfterExtract(outcome) == FALSE

\* line 161: the except clause catches FileNotFoundError and nothing else
IsCaught(outcome) == outcome = "FileNotFoundError"

\* lines 159-160: the directory the archive is extracted into
RepoDir(result) == result.owner \o "_" \o result.repo

\* ------------------------------------------------------------------------
\* enter_query_loop (lines 182-200) and main (lines 216-235)

\* line 189
Key(result) == << result["owner"], result["repo"] >>

\* the membership test left out
ShouldSkip_Never(key, accepted) == FALSE

\* line 190: if key in yes_set: continue
ShouldSkip(key, accepted) == key \in accepted

\* variant: a list of exactly the threshold's length is not confirmed
NeedsConfirm_Strict(n) == n > CONFIRM_PREVIEW_THRESHOLD

\* line 185: the confirmation is asked for
NeedsConfirm(n) == n >= CONFIRM_PREVIEW_THRESHOLD

\* what enter_query_loop returns: line 186 returns None, line 200 a set
ReturnNone == [is_none |-> TRUE, val |-> {}]
ReturnSet(s) == [is_none |-> FALSE, val |-> s]

\* variant: every directory is named after the owner alone
DirName_NoSuffix(owner, n) == owner

\* line 235: the name of the directory made for an owner whose count is n
DirName(owner, n) == IF n > 1 THEN owner \o "_" \o ToString(n) ELSE owner

\* line 231: the orders in which the for loop may walk the set
Orders(S) ==
    {f \in [1..Cardinality(S) -> S] :
        \A a, b \in 1..Cardinality(S) : a # b => f[a] # f[b]}

\* lines 229 and 232-233: users[owner] once the k-th element was counted
Users(order, k, owner) == Cardinality({j \in 1..k : order[j][1] = owner})

\* lines 231-235: the directories made under extra_directory when the set is
\* walked in the given order
MarkerDirs(order) ==
    { DirName(order[k][1], Users(order, k, order[k][1])) : k \in DOMAIN order }

RECURSIVE NextStop(_, _, _)
\* lines 188-191: the index the for loop stops at when it starts at index j:
\* the first result from there on whose key is not in yes_set, or the end
NextStop(rs, j, accepted) ==
    IF j >= Len(rs) THEN Len(rs)
    ELSE IF ShouldSkip(Key(rs[j + 1]), accepted) THEN NextStop(rs, j + 1, accepted)
    ELSE j

Current == results[i + 1]

NumPreviews == Cardinality({k \in DOMAIN trace : trace[k].ev = "preview"})

\* variant: the exception is swallowed and main goes on to its next prompt
Crash_Swallowed(e) == pc' = "continue" /\ error' = e

\* an exception nothing catches: main ends with a traceback
Crash(e) == pc' = "crashed" /\ error' = e

\* ------------------------------------------------------------------------
Init ==
    /\ config \in [raise_issue : BOOLEAN, scroll_enabled : BOOLEAN,
                   extra_directory : BOOLEAN]
    /\ pc = "query"
    /\ error = ""
    /\ queries = 0
    /\ listing = [sizes |-> <<0>>, stride |-> 0]
    /\ results = << >>
    /\ curr_page = 1
    /\ requests = << >>
    /\ i = 0
    /\ q_yes_set = {}
    /\ yes_set = {}
    /\ num_lines = 0
    /\ index = 0
    /\ user_response = NoResponse
    /\ shown = 0
    /\ asked = 0
    /\ records = << >>
    /\ tmp_archive = FALSE
    /\ output_dirs = {}
    /\ extra_dirs = {}
    /\ trace = << >>

\* main, line 226, and lines 96-98 of get_query_results: a query is read
ReadQuery ==
    /\ pc = "query"
    /\ queries < MaxQueries
    /\ NumPreviews < MaxPreviews
    /\ queries' = queries + 1
    /\ listing' \in Listings
    /\ results' = << >>
    /\ curr_page' = 1
    /\ requests' = << >>
    /\ i' = 0
    /\ q_yes_set' = {}
    /\ pc' = "fetch"
    /\ UNCHANGED << config, error, yes_set, num_lines, index,
                    user_response, shown, asked, records,
                    tmp_archive, output_dirs, extra_dirs, trace >>

\* what main does with the value enter_query_loop returns (line 227):
\* set.update(None) raises TypeError
MainUpdate(ret) ==
    IF ret.is_none
    THEN Crash("main: TypeError") /\ yes_set' = yes_set
    ELSE pc' = "continue" /\ error' = error /\ yes_set' = yes_set \cup ret.val

\* lines 188-191 and 200: the for loop runs from index j up to the next
\* result it previews; when none is left enter_query_loop returns yes_set
Advance(rs, j, accepted) ==
    LET k == NextStop(rs, j, accepted)
    IN  /\ i' = k
        /\ IF k = Len(rs)
           THEN MainUpdate(ReturnSet(accepted))
           ELSE pc' = "preview" /\ error' = error /\ yes_set' = yes_set

\* lines 99-110 with make_request (lines 81-92): one page is requested;
\* after the last page, line 185 and, with no confirmation to ask for,
\* line 187 and the head of the for loop
MakeRequest ==
    /\ pc = "fetch"
    /\ requests' = Append(requests, curr_page)
    /\ \E has_items \in BOOLEAN :
         IF has_items
         THEN LET curr_items == RemotePage(listing, curr_page)
                  all        == AppendItems(results, curr_items)
                  done       == IsLastPage(Len(curr_items))
              IN  /\ results' = all
                  /\ curr_page' = NextPage(curr_page)
                  /\ IF ~done
                     THEN pc' = "fetch" /\ UNCHANGED << error, yes_set, i >>
                     ELSE IF NeedsConfirm(Len(all))
                     THEN pc' = "confirm" /\ UNCHANGED << error, yes_set, i >>
                     ELSE Advance(all, 0, {})
         ELSE /\ Crash("make_request: RuntimeError")
              /\ UNCHANGED << results, curr_page, i, yes_set >>
    /\ UNCHANGED << config, queries, listing, q_yes_set, num_lines, index,
                    user_response, shown, asked, records,
                    tmp_archive, output_dirs, extra_dirs, trace >>

\* lines 185-187: get_yes_no_response on a long result list
ConfirmPreview ==
    /\ pc = "confirm"
    /\ \E r \in {x \in Inputs : IsYes(x) \/ IsNo(x)} :
         /\ Log(Event("confirm", Len(results), NoKey, Lower(r)))
         /\ IF IsYes(r)
            THEN Advance(results, 0, {})
            ELSE MainUpdate(ReturnNone) /\ i' = i
    /\ UNCHANGED << config, queries, listing, results, curr_page, requests,
                    q_yes_set, num_lines, index,
                    user_response, shown, asked, records, tmp_archive, output_dirs,
                    extra_dirs >>

\* variant: the assertion is not evaluated
EncodingOk_Any(encoding) == TRUE

\* line 120: the condition of the assert statement
EncodingOk(encoding) == encoding = "base64"

\* lines 192 and 115-129: the contents request of preview_file_content and
\* the lines shown before the first read from the terminal
PreviewRequest ==
    /\ pc = "preview"
    /\ NumPreviews < MaxPreviews
    /\ \E encoding \in {"base64", "none"}, n \in FileLengths :
         /\ Log(Event("preview", i + 1, Key(Current), encoding))
         /\ IF EncodingOk(encoding)
            THEN /\ num_lines' = n
                 /\ IF config.scroll_enabled /\ n > INITIAL_PREVIEW_SIZE
                    THEN /\ pc' = "scroll"
                         /\ index' = INITIAL_PREVIEW_SIZE
                         /\ shown' = INITIAL_PREVIEW_SIZE + 1
                    ELSE /\ pc' = "prompt"
                         /\ index' = n
                         /\ shown' = n
                 /\ error' = error
            ELSE /\ n = 0
                 /\ Crash("preview_file_content: AssertionError")
                 /\ UNCHANGED << num_lines, index, shown >>
    /\ UNCHANGED << config, queries, listing, results, curr_page, requests, i,
                    q_yes_set, yes_set, user_response, asked, records,
                    tmp_archive, output_dirs, extra_dirs >>

\* variant: no issue is raised
AfterAccept_NoIssue(raise) == "download"

\* lines 194-197: the side effect that comes first for an accepted result
AfterAccept(raise) == IF raise THEN "issue" ELSE "download"

\* variant: the key is added whatever the decision
Accepted_Always(ret, acc, key) == acc \cup {key}

\* lines 192-193: yes_set after preview_file_content returned ret
Accepted(ret, acc, key) == IF ret THEN acc \cup {key} ELSE acc

\* lines 192-194 and 199: what follows the value preview_file_content returns
Decide(accept) ==
    /\ Log(Event("decide", i + 1, Key(Current), IF accept THEN "accept" ELSE "reject"))
    /\ num_lines' = 0
    /\ index' = 0
    /\ user_response' = NoResponse
    /\ shown' = 0
    /\ asked' = 0
    /\ q_yes_set' = Accepted(accept, q_yes_set, Key(Current))
    /\ IF accept
       THEN /\ pc' = AfterAccept(config.raise_issue)
            /\ UNCHANGED << i, error, yes_set >>
       ELSE Advance(results, i + 1, q_yes_set')

\* line 130: the response read after a line past the initial ones
ScrollInput ==
    /\ pc = "scroll"
    /\ \E r \in Inputs : user_response' = r
    /\ asked' = asked + 1
    /\ pc' = "scrolled"
    /\ UNCHANGED << config, error, queries, listing, results, curr_page, requests,
                    i, q_yes_set, yes_set, num_lines, index, shown, records,
                    tmp_archive, output_dirs, extra_dirs, trace >>

\* lines 131-134, then lines 125-129 for the next line of the file, or the
\* end of the loop
ScrollStep ==
    /\ pc = "scrolled"
    /\ IF IsYes(user_response) \/ IsNo(user_response)
       THEN Decide(IsYes(user_response))
       ELSE /\ index' = index + 1
            /\ IF index + 1 < num_lines
               THEN pc' = "scroll" /\ shown' = shown + 1
               ELSE pc' = "prompt" /\ shown' = shown
            /\ UNCHANGED << i, q_yes_set, trace, num_lines, error, yes_set,
                            user_response, asked >>
    /\ UNCHANGED << config, queries, listing, results, curr_page, requests,
                    records, tmp_archive, output_dirs, extra_dirs >>

\* line 137: get_yes_no_response asks until the response is one of y, yes, n, no
Prompt ==
    /\ pc = "prompt"
    /\ \E r \in {x \in Inputs : IsYes(x) \/ IsNo(x)} : Decide(IsYes(r))
    /\ UNCHANGED << config, queries, listing, results, curr_page, requests,
                    records, tmp_archive, output_dirs, extra_dirs >>

\* lines 194-196 and 140-145: the issue is posted and the response logged
RaiseIssue ==
    /\ pc = "issue"
    /\ \E outcome \in {"201", "403", "ConnectionError"} :
         /\ Log(Event("post", i + 1, Key(Current),
                      IF outcome = "ConnectionError" THEN outcome ELSE "response"))
         /\ IF outcome = "ConnectionError"
            THEN Crash("raise_issue: ConnectionError")
            ELSE pc' = "download" /\ error' = error
    /\ UNCHANGED << config, queries, listing, results, curr_page, requests, i,
                    q_yes_set, yes_set, num_lines, index,
                    user_response, shown, asked, records, tmp_archive,
                    output_dirs, extra_dirs >>

\* lines 149-156: the archive is requested and written to output.zip
DownloadRequest ==
    /\ pc = "download"
    /\ \E status \in {"200", "404"} :
         /\ Log(Event("get", i + 1, Key(Current), status))
         /\ IF status # "200"
            THEN Crash("download_repository: RuntimeError") /\ tmp_archive' = tmp_archive
            ELSE pc' = "extract" /\ error' = error /\ tmp_archive' = TRUE
    /\ UNCHANGED << config, queries, listing, results, curr_page, requests, i,
                    q_yes_set, yes_set, num_lines, index,
                    user_response, shown, asked, records, output_dirs,
                    extra_dirs >>

\* lines 157-167, then add_to_records (line 197), line 199 and the for loop
Extract ==
    /\ pc = "extract"
    /\ \E outcome \in ExtractOutcomes :
         /\ Log(Event("extract", i + 1, Key(Current), outcome))
         /\ tmp_archive' = TmpAfterExtract(outcome)
         /\ output_dirs' = IF outcome = "ok"
                           THEN output_dirs \cup {RepoDir(Current)}
                           ELSE output_dirs
         /\ IF outcome = "ok" \/ IsCaught(outcome)
            THEN /\ records' = records \o RecordEntry(Current,
                                   IF outcome = "ok" THEN None
                                   ELSE FailMsg(Current, outcome))
                 /\ Advance(results, i + 1, q_yes_set)
            ELSE /\ Crash("download_repository: " \o outcome)
                 /\ UNCHANGED << records, i, yes_set >>
    /\ UNCHANGED << config, queries, listing, results, curr_page, requests,
                    q_yes_set, num_lines, index, user_response, shown,
                    asked, extra_dirs >>

\* lines 228-235: "Continue querying?", and what follows the loop
ContinuePrompt ==
    /\ pc = "continue"
    /\ \E r \in {x \in Inputs : IsYes(x) \/ IsNo(x)} :
         IF IsYes(r)
         THEN /\ queries < MaxQueries
              /\ pc' = "query"
              /\ extra_dirs' = extra_dirs
         ELSE /\ pc' = "done"
              /\ IF config.extra_directory
                 THEN \E order \in Orders(yes_set) : extra_dirs' = MarkerDirs(order)
                 ELSE extra_dirs' = {}
    /\ UNCHANGED << config, error, queries, listing, results, curr_page, requests,
                    i, q_yes_set, yes_set, num_lines, index,
                    user_response, shown, asked, records, tmp_archive,
                    output_dirs, trace >>

Next ==
    \/ ReadQuery
    \/ MakeRequest
    \/ ConfirmPreview
    \/ PreviewRequest
    \/ ScrollInput
    \/ ScrollStep
    \/ Prompt
    \/ RaiseIssue
    \/ DownloadRequest
    \/ Extract
    \/ ContinuePrompt

Spec == Init /\ [][Next]_vars

\* ------------------------------------------------------------------------
\* Reading the history and the record file

\* the positions of the trace that hold an event of the given kind
Evs(ev) == {k \in DOMAIN trace : trace[k].ev = ev}

Accepts == {k \in Evs("decide") : trace[k].val = "accept"}

\* the events made for one result: its preview, its decision, its side effects
ResultEvs == Evs("preview") \cup Evs("decide") \cup Evs("post") \cup Evs("get")
             \cup Evs("extract")

\* get_query_results has returned for the current query
Aggregated == queries > 0 /\ pc # "fetch" /\ error # "make_request: RuntimeError"

\* get_query_results has returned and nothing has been asked or requested
\* since (results is not written after that)
JustAggregated == Aggregated /\ \A k \in DOMAIN trace : trace[k].q < queries

\* the first page of the listing that holds fewer than ITEMS_PER_PAGE items
FirstShortPage(l) ==
    CHOOSE p \in 1..(Len(l.sizes) + 1) :
        /\ PageSize(l, p) < 30
        /\ \A p2 \in 1..(p - 1) : PageSize(l, p2) = 30

\* the remote answer is some full pages followed by one short page and
\* nothing after it
FullThenShort(l) == FirstShortPage(l) >= Len(l.sizes)

RECURSIVE LinesFrom(_, _, _)
LinesFrom(text, k, cur) ==
    IF k > Len(text) THEN (IF cur = "" THEN << >> ELSE << cur >>)
    ELSE IF text[k] = NL THEN << cur >> \o LinesFrom(text, k + 1, "")
    ELSE LinesFrom(text, k + 1, cur \o text[k])

\* the lines of a text: the pieces between two newlines, joined
Lines(text) == LinesFrom(text, 1, "")

\* the accept decisions of the run, in order
AcceptSeq == SelectSeq(trace, LAMBDA e : e.ev = "decide" /\ e.val = "accept")

\* the extractions that failed
FailedExtracts == {k \in Evs("extract") : trace[k].val # "ok"}

\* how many pieces of the text equal x
CountOf(text, x) == Cardinality({k \in DOMAIN text : text[k] = x})

\* the record entries that carry a failure message, and a timestamp
FailEntries == CountOf(records, "Download failed! Message: ")
StampEntries == CountOf(records, "Downloaded: " \o Timestamp \o " US EST")

\* ------------------------------------------------------------------------
\* C1: once a repository was accepted in an earlier query, no result of a
\* later query with that (owner, repo) is previewed, prompted for, or acted
\* upon (issue, download, record).
C1_AcceptedInEarlierQueryNeverPreviewed ==
    \A k \in ResultEvs : \A a \in Accepts :
        ~(trace[a].q < trace[k].q /\ trace[a].key = trace[k].key)

\* C2: of the results sharing an (owner, repo), at most one is previewed
\* in a run, whatever the decision for the first.
C2_AtMostOnePreviewPerRepository ==
    \A k1, k2 \in Evs("preview") : trace[k1].key = trace[k2].key => k1 = k2

\* C3: within one query, after a result is accepted no later result of the
\* list with the same (owner, repo) is previewed or prompted for: it is
\* passed over, and the pair gets at most one issue, one download and one
\* record entry in that query.
C3_AcceptedSkippedWithinQuery ==
    /\ \A a \in Accepts : \A k \in ResultEvs :
         (k > a /\ trace[k].q = trace[a].q /\ trace[k].key = trace[a].key)
            => trace[k].n = trace[a].n
    /\ \A ev \in {"post", "get", "extract"} : \A k1, k2 \in Evs(ev) :
         (trace[k1].q = trace[k2].q /\ trace[k1].key = trace[k2].key) => k1 = k2
    /\ (pc \in {"preview", "scroll", "scrolled", "prompt"} => Key(Current) \notin q_yes_set)

\* a result after an accepted one, with the same pair, has been passed over
C3_Witness ==
    \E a \in Accepts : \E j \in 1..i :
        /\ trace[a].q = queries
        /\ j > trace[a].n
        /\ Key(results[j]) = trace[a].key
        /\ \A k \in ResultEvs : ~(trace[k].q = queries /\ trace[k].n = j)

RECURSIVE PagesInOrder(_, _)
\* the items of pages 1..k, page after page, each as a result record
PagesInOrder(l, k) ==
    IF k = 0 THEN << >>
    ELSE LET page == RemotePage(l, k)
         IN  PagesInOrder(l, k - 1) \o [j \in DOMAIN page |-> MapItem(page[j])]

\* C4: when the remote answer is k-1 full pages and a last page of m < 30
\* items, get_query_results returns 30*(k-1)+m results, the items of the
\* pages in page order and in the order within each page.
C4_AllItemsInOrder ==
    (JustAggregated /\ FullThenShort(listing)) =>
        LET k == FirstShortPage(listing)
            m == PageSize(listing, k)
        IN  /\ Len(results) = 30 * (k - 1) + m
            /\ results = PagesInOrder(listing, k)

\* two pages, 30 items then 5, have given 35 results
C4_Witness ==
    /\ JustAggregated
    /\ listing.sizes = <<30, 5>>
    /\ listing.stride = 1
    /\ Len(results) = 35

\* C5: the pages are requested in the order 1, 2, 3, ..., each once; a page
\* is requested only after full pages, the first short page ends the
\* requests, and a full last page is followed by exactly one more request.
C5_ConsecutiveUntilShortPage ==
    /\ requests = [p \in 1..Len(requests) |-> p]
    /\ \A p \in 1..(Len(requests) - 1) : PageSize(listing, p) = 30
    /\ (pc = "fetch" /\ requests # << >>) => PageSize(listing, Len(requests)) = 30
    /\ Aggregated => Len(requests) = FirstShortPage(listing)

\* the only page of the listing is full: one more page was requested
C5_Witness ==
    /\ Aggregated
    /\ listing.sizes = <<30>>
    /\ requests = <<1, 2>>
    /\ Len(results) = 30

\* C6: an extraction failure of any kind is turned into a failure message:
\* the exception does not leave download_repository, the loop goes on, and
\* the record entry of the result carries the message and no timestamp.
C6_ExtractionFailureRecovered ==
    /\ error \notin {"download_repository: " \o o : o \in ExtractOutcomes}
    /\ pc # "extract" =>
         /\ FailEntries = Cardinality(FailedExtracts)
         /\ StampEntries = Cardinality(Evs("extract") \ FailedExtracts)

\* C7: a non-200 answer of the archive endpoint is recovered: a record
\* entry with the failure message is written and the run is not aborted.
C7_DownloadErrorRecovered ==
    LET refused == {k \in Evs("get") : trace[k].val # "200"}
    IN  /\ error # "download_repository: RuntimeError"
        /\ pc \notin {"download", "extract"} =>
             FailEntries >= Cardinality(refused)

\* C8: after N accept decisions the record file holds N blocks, in accept
\* order, each ending with a line made of exactly 50 '=' characters.
C8_OneBlockPerAccept ==
    pc \notin {"issue", "download", "extract", "crashed"} =>
        LET ls == Lines(records)
            N  == Len(AcceptSeq)
        IN  /\ Len(ls) = 6 * N
            /\ \A b \in 1..N :
                 /\ ls[6 * b - 5] = "Owner: " \o AcceptSeq[b].key[1]
                 /\ ls[6 * b - 4] = "Repository: https://github.com/"
                                      \o AcceptSeq[b].key[1] \o "/" \o AcceptSeq[b].key[2]
                 /\ ls[6 * b - 1] = "=================================================="
                 /\ ls[6 * b] = ""

\* C9: when the operator declines the confirmation of a long result list,
\* nothing of that query is previewed or acted upon, the accepted set of
\* the run stays as it was and the run goes on to "Continue querying?".
C9_DeclineReturnsEmptySet ==
    \A c \in Evs("confirm") :
        trace[c].val \in {"n", "no"} =>
            /\ error # "main: TypeError"
            /\ \A k \in ResultEvs : trace[k].q # trace[c].q
            /\ c = Len(trace) => pc \in {"continue", "query", "fetch", "done"}

\* C10: output.zip does not exist whenever control is outside
\* download_repository, whichever way the call ended.
C10_TmpArchiveRemoved ==
    pc # "extract" => ~tmp_archive

\* an extraction has failed, control has left download_repository
C10_Witness ==
    /\ FailedExtracts # {}
    /\ pc # "extract"
    /\ ~tmp_archive

\* C11: an accept puts the pair into the accepted set even when its
\* download or extraction fails, and no later result with that pair is
\* previewed in the run.
C11_FailedDownloadStillDecided ==
    \A a \in Accepts :
        (\E k \in Evs("get") \cup Evs("extract") :
            /\ trace[k].q = trace[a].q /\ trace[k].n = trace[a].n
            /\ trace[k].val \notin {"200", "ok"})
        => /\ (trace[a].q = queries => trace[a].key \in q_yes_set)
           /\ (trace[a].q < queries => trace[a].key \in yes_set)
           /\ \A k \in Evs("preview") : k > a => trace[k].key # trace[a].key

\* C12: with issue filing enabled, whatever becomes of the POST (a success
\* status, an error status, a network failure) the archive is requested
\* next and a record entry is written for the result.
C12_IssueNeverBlocksDownload ==
    /\ error # "raise_issue: ConnectionError"
    /\ \A p \in Evs("post") :
         /\ p < Len(trace) => trace[p + 1].ev = "get"
         /\ pc \notin {"issue", "download", "extract"} =>
              \E k \in Evs("extract") :
                  /\ trace[k].q = trace[p].q /\ trace[k].n = trace[p].n
                  /\ trace[k].val \in {"ok", "FileNotFoundError"}

\* C13: a page response without 'items' ends the run: the page is the
\* last one requested and was requested once, nothing of that query is
\* previewed, prompted for or acted upon, and no step follows (no further
\* page, no query prompt).
C13_MissingItemsIsTerminal ==
    error = "make_request: RuntimeError" =>
        /\ pc = "crashed"
        /\ ~ENABLED Next
        /\ requests = [k \in 1..Len(requests) |-> k]
        /\ curr_page = Len(requests)
        /\ \A k \in DOMAIN trace : trace[k].q < queries

\* the third page fails after two pages of results were aggregated
C13_Witness ==
    /\ error = "make_request: RuntimeError"
    /\ Len(requests) = 3
    /\ Len(results) = 2 * ITEMS_PER_PAGE

\* C14: a preview whose payload encoding is not base64 is the last thing
\* the run does: no line of the file is shown, no prompt, preview or side
\* effect follows, the run has ended, and the record file still holds one
\* entry per download that returned before.
C14_BadEncodingIsFatal ==
    \A k \in Evs("preview") :
        trace[k].val # "base64" =>
            /\ k = Len(trace)
            /\ pc = "crashed"
            /\ error = "preview_file_content: AssertionError"
            /\ ~ENABLED Next
            /\ index = 0
            /\ num_lines = 0
            /\ StampEntries + FailEntries =
                 Cardinality({e \in Evs("extract") :
                                 trace[e].val \in {"ok", "FileNotFoundError"}})

\* the assertion fails on the second preview, after an entry was written
C14_Witness ==
    /\ error = "preview_file_content: AssertionError"
    /\ StampEntries + FailEntries = 1
    /\ trace[Len(trace)].ev = "preview"
    /\ trace[Len(trace)].val = "none"

\* the spellings of an accepting and of a rejecting response
SaysYes(r) == r \in {"y", "Y", "yes", "yeS", "yEs", "yES", "Yes", "YeS", "YEs", "YES"}
SaysNo(r) == r \in {"n", "N", "no", "nO", "No", "NO"}

InPreview == pc \in {"scroll", "scrolled", "prompt"}

DecisionLogged(val) ==
    trace' = Append(trace, Event("decide", i + 1, Key(Current), val))

\* lines shown and responses read, at each position of a scrolling preview
C15_ScrollState ==
    (config.scroll_enabled /\ InPreview) =>
        /\ shown <= num_lines
        /\ pc = "scroll" =>
             /\ num_lines > INITIAL_PREVIEW_SIZE
             /\ shown = INITIAL_PREVIEW_SIZE + asked + 1
        /\ pc = "scrolled" =>
             /\ asked >= 1
             /\ shown = INITIAL_PREVIEW_SIZE + asked
        /\ pc = "prompt" =>
             /\ shown = num_lines
             /\ asked = IF num_lines > INITIAL_PREVIEW_SIZE
                        THEN num_lines - INITIAL_PREVIEW_SIZE ELSE 0

\* what each step of a scrolling preview does
C15_ScrollStep ==
    /\ (pc = "preview" /\ config.scroll_enabled /\ pc' # "crashed") =>
         /\ asked' = 0
         /\ shown' = IF num_lines' > INITIAL_PREVIEW_SIZE
                     THEN INITIAL_PREVIEW_SIZE + 1 ELSE num_lines'
         /\ pc' = IF num_lines' > INITIAL_PREVIEW_SIZE THEN "scroll" ELSE "prompt"
         /\ trace'[Len(trace')].ev = "preview"
    /\ pc = "scroll" => pc' = "scrolled" /\ asked' = asked + 1 /\ shown' = shown
    /\ pc = "scrolled" =>
         IF SaysYes(user_response)
         THEN DecisionLogged("accept") /\ pc' \in {"issue", "download"}
         ELSE IF SaysNo(user_response)
         THEN DecisionLogged("reject") /\ pc' \notin {"scroll", "scrolled", "prompt"}
         ELSE /\ trace' = trace
              /\ asked' = asked
              /\ IF shown < num_lines
                 THEN pc' = "scroll" /\ shown' = shown + 1
                 ELSE pc' = "prompt" /\ shown' = shown
    /\ pc = "prompt" => DecisionLogged("accept") \/ DecisionLogged("reject")
    /\ (Len(trace') > Len(trace) /\ trace'[Len(trace')].ev = "decide") =>
         pc \in {"scrolled", "prompt"}

\* C15: a scrolling preview of a file of L lines shows the first min(L, 10)
\* lines without reading a response and reads exactly one response after
\* each later line; the first response spelling y or yes in any case accepts
\* and the first spelling n or no rejects, with no further line shown; any
\* other response shows the next line; once all L lines are shown the
\* decision is the one given at the explicit prompt.
C15_ScrollingPreview == []C15_ScrollState /\ [][C15_ScrollStep]_vars

\* the twelfth line was shown and answered YES
C15_Witness ==
    /\ pc = "scrolled"
    /\ num_lines = 12
    /\ shown = 12
    /\ asked = 2
    /\ user_response = "YES"

ConfirmsOf(q) == {k \in Evs("confirm") : trace[k].q = q}

\* C16: the confirmation is asked for exactly for the queries with at least
\* 100 aggregated results, once the last page was received and before
\* anything of the query is previewed.
C16_ConfirmIffLong ==
    /\ pc = "confirm" =>
         /\ Len(results) >= 100
         /\ Len(requests) = FirstShortPage(listing)
         /\ \A k \in DOMAIN trace : trace[k].q < queries
    /\ pc = "fetch" => ConfirmsOf(queries) = {}
    /\ (Aggregated /\ pc # "confirm") =>
         (Len(results) >= 100 <=> ConfirmsOf(queries) # {})
    /\ \A k \in Evs("confirm") :
         /\ trace[k].n >= 100
         /\ \A j \in 1..(k - 1) : trace[j].q < trace[k].q
         /\ trace[k].q = queries =>
              /\ trace[k].n = Len(results)
              /\ Len(requests) = FirstShortPage(listing)

\* a list of exactly 100 results was confirmed and its first result previewed
C16_Witness ==
    \E k \in Evs("confirm") :
        /\ trace[k].n = 100
        /\ k < Len(trace)
        /\ trace[k + 1].ev = "preview"
        /\ trace[k + 1].q = trace[k].q

\* the owners of the accepted pairs, and how many pairs each of them has
Owners(accepted) == {k[1] : k \in accepted}
ReposOf(accepted, owner) == Cardinality({k \in accepted : k[1] = owner})

\* owner, owner_2, ..., owner_c
Numbered(owner, c) ==
    {owner} \cup {owner \o "_" \o ToString(n) : n \in 2..c}

\* C17: with an extra directory configured, when the query loop has ended
\* an owner with c accepted repositories has the directories owner,
\* owner_2, ..., owner_c and no other directory exists, so there are as many
\* directories as accepted pairs; none is made before the loop ends.
C17_OneMarkerPerAcceptedPair ==
    /\ pc # "done" => extra_dirs = {}
    /\ (pc = "done" /\ ~config.extra_directory) => extra_dirs = {}
    /\ (pc = "done" /\ config.extra_directory) =>
         /\ extra_dirs = UNION {Numbered(o, ReposOf(yes_set, o)) : o \in Owners(yes_set)}
         /\ Cardinality(extra_dirs) = Cardinality(yes_set)

\* two repositories of one owner were accepted
C17_Witness ==
    /\ pc = "done"
    /\ config.extra_directory
    /\ {<<"a", "r">>, <<"a", "s">>} \subseteq yes_set
    /\ {"a", "a_2"} \subseteq extra_dirs

SameResult(j, k) == trace[j].q = trace[k].q /\ trace[j].n = trace[k].n

Follows(k, ev, vals) ==
    /\ k > 1
    /\ trace[k - 1].ev = ev
    /\ trace[k - 1].val \in vals
    /\ SameResult(k - 1, k)

\* C18: for an accepted result the issue is posted first (when raise_issue
\* is set, and only then), the archive is requested next and extracted, and
\* the record entry is written once download_repository has returned; the
\* next preview comes after all of them.
C18_SideEffectOrder ==
    /\ \A k \in DOMAIN trace :
         /\ trace[k].ev = "post" =>
              config.raise_issue /\ Follows(k, "decide", {"accept"})
         /\ trace[k].ev = "get" =>
              IF config.raise_issue
              THEN Follows(k, "post", {"response"})
              ELSE Follows(k, "decide", {"accept"})
         /\ trace[k].ev = "extract" => Follows(k, "get", {"200"})
         /\ (trace[k].ev = "decide" /\ trace[k].val = "accept" /\ k < Len(trace)) =>
              trace[k + 1].ev = IF config.raise_issue THEN "post" ELSE "get"
         /\ (trace[k].ev = "preview" /\ k > 1) =>
              \/ trace[k - 1].ev = "confirm"
              \/ trace[k - 1].ev = "decide" /\ trace[k - 1].val = "reject"
              \/ trace[k - 1].ev = "extract" /\
                   trace[k - 1].val \in {"ok", "FileNotFoundError"}
    /\ StampEntries + FailEntries =
         Cardinality({e \in Evs("extract") :
                         trace[e].val \in {"ok", "FileNotFoundError"}})

\* an issue was posted for a repository whose extraction then failed, and
\* the failure entry was written before the next preview
C18_Witness ==
    \E k \in Evs("post") :
        /\ k + 3 <= Len(trace)
        /\ trace[k + 2].ev = "extract"
        /\ trace[k + 2].val = "FileNotFoundError"
        /\ trace[k + 3].ev = "preview"
        /\ FailEntries = 1

\* a step that ends in a reject decision
RejectStep ==
    /\ Len(trace') = Len(trace) + 1
    /\ trace'[Len(trace')].ev = "decide"
    /\ trace'[Len(trace')].val = "reject"

\* what a reject leaves alone; the run-wide set changes in the same step
\* only when the result was the last of its query, by the query's set
C19_RejectFrame ==
    RejectStep =>
        /\ pc \in {"scrolled", "prompt"}
        /\ q_yes_set' = q_yes_set
        /\ yes_set' = IF pc' = "continue" THEN yes_set \cup q_yes_set ELSE yes_set
        /\ records' = records
        /\ output_dirs' = output_dirs
        /\ extra_dirs' = extra_dirs
        /\ tmp_archive' = tmp_archive
        /\ pc' \in {"preview", "continue"}

\* no request is ever made for a rejected result
C19_NoSideEffect ==
    \A k \in Evs("decide") :
        trace[k].val = "reject" =>
            \A j \in Evs("post") \cup Evs("get") \cup Evs("extract") :
                ~SameResult(j, k)

\* C19: a reject, inline or at the explicit prompt, leaves the query's
\* accepted set, the run-wide accepted set, the record file and the output
\* directory as they were, and no issue is posted and no archive requested
\* for the rejected result.
C19_RejectChangesNothing == []C19_NoSideEffect /\ [][C19_RejectFrame]_vars

\* a result was rejected after another one of the query had been accepted
\* and recorded
C19_Witness ==
    /\ trace # << >>
    /\ trace[Len(trace)].ev = "decide"
    /\ trace[Len(trace)].val = "reject"
    /\ trace[Len(trace)].q = queries
    /\ q_yes_set # {}
    /\ records # << >>
    /\ output_dirs # {}

====
